---------------------------- MODULE Spec2Model ----------------------------
(***************************************************************************)
(* Model of the GIOS API wrapper: fetch_data (utils.py), the entity        *)
(* parsers create_stations / create_installations, the pagination loops    *)
(* of get_stations and Station.get_installations, and the fan-out / merge  *)
(* of get_stations (models.py).                                            *)
(*                                                                         *)
(* Three specifications share the module:                                  *)
(*   SpecFetch  one call of fetch_data against an arbitrary endpoint       *)
(*   SpecParse  one call of create_stations / create_installations         *)
(*   Spec       one run of get_stations on the asyncio event loop          *)
(***************************************************************************)
EXTENDS Integers, Sequences, FiniteSets, TLC

VARIABLES
    fcall,          \* SpecFetch: the frame of the fetch_data call
    raw,            \* SpecParse: the raw page handed to the parser
    kind,           \* SpecParse: which parser is applied
    parsed,         \* SpecParse: what the parser gave
    api,            \* Spec: the content the remote API serves
    pc,             \* Spec: where get_stations stands
    current_page,   \* Spec: get_stations.current_page
    total_pages,    \* Spec: get_stations.total_pages
    updated_total,  \* Spec: get_stations.updated_total
    master_list,    \* Spec: get_stations.master_list (the Station objects)
    tasks,          \* Spec: get_stations.tasks (the get_installations tasks)
    mfetch,         \* Spec: the fetch_data call get_stations is awaiting
    st_pages,       \* Spec (history): page indices get_stations asked fetch_data for
    add_calls,      \* Spec (history): add_installations calls, per station position
    faults,         \* Spec (history): URLs whose fetch_data call failed terminally
    completed       \* Spec (history): the installation tasks, in the order they ended

vars == <<fcall, raw, kind, parsed, api, pc, current_page, total_pages,
          updated_total, master_list, tasks, mfetch, st_pages, add_calls, faults,
          completed>>

fetchVars == <<fcall>>
parseVars == <<raw, kind, parsed>>
runVars == <<api, pc, current_page, total_pages, updated_total, master_list,
             tasks, mfetch, st_pages, add_calls, faults, completed>>

---------------------------------------------------------------------------
(* Bounds of the model *)

\* page indices a resource of the modelled API can have: 0 .. MaxPages-1
MaxPages == 2
\* SpecFetch draws max_retries from 0 .. MaxRetriesArg
MaxRetriesArg == 6
\* SpecParse draws pages of at most MaxRecs raw records
MaxRecs == 3

\* utils.py: fetch_data(url, max_retries=5)
DEFAULT_MAX_RETRIES == 5

---------------------------------------------------------------------------
(* Small helpers *)

RECURSIVE Pow2(_)
Pow2(n) == IF n = 0 THEN 1 ELSE 2 * Pow2(n - 1)

RECURSIVE SumSeq(_)
SumSeq(s) == IF s = <<>> THEN 0 ELSE Head(s) + SumSeq(Tail(s))

RECURSIVE SelectValid(_, _)
\* the subsequence of s whose records carry every key of keys
SelectValid(s, keys) ==
    IF s = <<>> THEN <<>>
    ELSE IF keys \subseteq DOMAIN Head(s)
         THEN <<Head(s)>> \o SelectValid(Tail(s), keys)
         ELSE SelectValid(Tail(s), keys)

SeqsUpTo(S, n) == UNION { [1..m -> S] : m \in 0..n }

Range(s) == { s[i] : i \in DOMAIN s }

---------------------------------------------------------------------------
(* JSON values.  A decoded JSON value is tagged with its Python type, so   *)
(* that isinstance(x, dict) is a test of the model.  The raw records of a  *)
(* page are dicts, modelled as functions from key to value; a key that is  *)
(* absent from the function's domain raises KeyError when looked up.  The  *)
(* non-ASCII letters of the API's keys are transliterated.                 *)

Dict(f) == [type |-> "dict", val |-> f]
List(s) == [type |-> "list", val |-> s]

isinstance_dict(x) == x.type = "dict"

TOTAL_PAGES_KEY == "totalPages"
STATION_LIST_KEY == "Lista stacji pomiarowych"
INSTALLATION_LIST_KEY == "Lista stanowisk pomiarowych dla podanej stacji"

\* the keys create_stations looks up in a raw record
STATION_KEYS ==
    { "Identyfikator stacji", "Kod stacji", "Nazwa stacji", "WGS84 phi N",
      "WGS84 lambda E", "Nazwa miasta", "Identyfikator miasta", "Gmina",
      "Powiat", "Wojewodztwo", "Ulica" }

\* the keys create_installations looks up in a raw record
INSTALLATION_KEYS ==
    { "Identyfikator stanowiska", "Wskaznik", "Wskaznik - wzor",
      "Wskaznik - kod", "Id wskaznika" }

\* a page document: {"totalPages": t, <list key>: recs}
PageDoc(listKey, t, recs) == Dict((TOTAL_PAGES_KEY :> t) @@ (listKey :> recs))

---------------------------------------------------------------------------
(* The entity parser (models.py) *)

\* Station(id=data[...], code=data[...], ...): the fixed key-to-attribute mapping
StationOf(data) ==
    [ id             |-> data["Identyfikator stacji"],
      code           |-> data["Kod stacji"],
      name           |-> data["Nazwa stacji"],
      latitude       |-> data["WGS84 phi N"],
      longitude      |-> data["WGS84 lambda E"],
      city           |-> [ name     |-> data["Nazwa miasta"],
                           city_id  |-> data["Identyfikator miasta"],
                           commune  |-> data["Gmina"],
                           district |-> data["Powiat"],
                           province |-> data["Wojewodztwo"] ],
      address_street |-> data["Ulica"],
      installations  |-> <<>> ]

\* Installation(id=data[...], param_name=data[...], ...)
InstallationOf(data) ==
    [ id            |-> data["Identyfikator stanowiska"],
      param_name    |-> data["Wskaznik"],
      param_formula |-> data["Wskaznik - wzor"],
      param_code    |-> data["Wskaznik - kod"],
      param_id      |-> data["Id wskaznika"] ]

\* some data[key] of the constructor call raises KeyError
RaisesKeyError(data, keys) == \E k \in keys : k \notin DOMAIN data

RECURSIVE StationsLoopAbort(_, _)
\* variant: the except clause leaves the loop (break instead of continue)
StationsLoopAbort(station_data_list, stations) ==
    IF station_data_list = <<>> THEN stations
    ELSE LET data == Head(station_data_list) IN
         IF RaisesKeyError(data, STATION_KEYS)
         THEN stations
         ELSE StationsLoopAbort(Tail(station_data_list),
                                Append(stations, StationOf(data)))

RECURSIVE StationsLoop(_, _)
\* for data in station_data_list: try: stations.append(Station(...))
\*                                except KeyError: continue
StationsLoop(station_data_list, stations) ==
    IF station_data_list = <<>> THEN stations
    ELSE LET data == Head(station_data_list) IN
         IF RaisesKeyError(data, STATION_KEYS)
         THEN StationsLoop(Tail(station_data_list), stations)
         ELSE StationsLoop(Tail(station_data_list),
                           Append(stations, StationOf(data)))

RECURSIVE InstallationsLoop(_, _)
\* for data in installation_data_list: try: installations.append(Installation(...))
\*                                     except KeyError: continue
InstallationsLoop(installation_data_list, installations) ==
    IF installation_data_list = <<>> THEN installations
    ELSE LET data == Head(installation_data_list) IN
         IF RaisesKeyError(data, INSTALLATION_KEYS)
         THEN InstallationsLoop(Tail(installation_data_list), installations)
         ELSE InstallationsLoop(Tail(installation_data_list),
                                Append(installations, InstallationOf(data)))

\* what a call gives: a returned value or a raised exception
Returned(v) == [raised |-> FALSE, value |-> v]
Raised(e)   == [raised |-> TRUE, exc |-> e]

VALUE_ERROR == [type |-> "ValueError", msg |-> "Data must be a dictionary/json"]

create_stations(station_data) ==
    IF ~isinstance_dict(station_data)
    THEN Raised(VALUE_ERROR)
    ELSE Returned(StationsLoop(station_data.val[STATION_LIST_KEY], <<>>))

\* variant: a value that is not a dict is read as a page without records
create_installations_lenient(installation_data) ==
    IF ~isinstance_dict(installation_data)
    THEN Returned(<<>>)
    ELSE Returned(InstallationsLoop(installation_data.val[INSTALLATION_LIST_KEY], <<>>))

create_installations(installation_data) ==
    IF ~isinstance_dict(installation_data)
    THEN Raised(VALUE_ERROR)
    ELSE Returned(InstallationsLoop(installation_data.val[INSTALLATION_LIST_KEY], <<>>))

---------------------------------------------------------------------------
(* fetch_data (utils.py).  A call is a frame; it is suspended either in    *)
(* session.get ("get") or in asyncio.sleep ("sleep"), or it is over        *)
(* ("returned", "raised").  requests, waits and statuses are history       *)
(* fields: the GETs issued, the sleeps completed and the answers received. *)

\* the answers of the endpoint: an HTTP status, or 0 for a transport error
\* (session.get raises before any status is read)
Statuses == {0, 200, 429, 500}

NoBody == List(<<>>)

NO_ERROR == [type |-> "none", msg |-> ""]

\* raise Exception("Failed to fetch data")
FAILED_TO_FETCH == [type |-> "Exception", msg |-> "Failed to fetch data"]

\* variant: every error status is retried
IsRateLimitedAny(status) == status >= 400
\* if response.status == 429
IsRateLimited(status) == status = 429

\* response.raise_for_status() raises ClientResponseError
RaisesForStatus(status) == status >= 400

\* variant: linear backoff
NextWaitLinear(wait_time) == wait_time + 1
\* wait_time *= 2
NextWait(wait_time) == wait_time * 2

\* variant: the loop test admits one more round
MayRequestInclusive(retry_count, max_retries) == retry_count <= max_retries
\* while retry_count < max_retries
MayRequest(retry_count, max_retries) == retry_count < max_retries

\* the statement after the loop: raise Exception("Failed to fetch data")
FetchRaise(f) == [f EXCEPT !.at = "raised", !.error = FAILED_TO_FETCH]

\* the loop test, and session.get(url) when it passes
FetchLoop(f) ==
    IF MayRequest(f.retry_count, f.max_retries)
    THEN [f EXCEPT !.at = "get", !.requests = @ + 1]
    ELSE FetchRaise(f)

\* the call fetch_data(url, max_retries), run to its first suspension
FetchStart(url, max_retries) ==
    FetchLoop([ url |-> url, max_retries |-> max_retries,
                wait_time |-> 1, retry_count |-> 0,
                at |-> "new", requests |-> 0, waits |-> <<>>, statuses |-> <<>>,
                result |-> NoBody, error |-> NO_ERROR ])

\* session.get(url) completes with status (body is what response.json() decodes)
FetchOnResponse(f, status, body) ==
    LET g == [f EXCEPT !.statuses = Append(@, status)] IN
    IF status = 0
    THEN FetchRaise(g)                                   \* except Exception: break
    ELSE IF IsRateLimited(status)
    THEN [g EXCEPT !.retry_count = @ + 1, !.at = "sleep"] \* await asyncio.sleep(wait_time)
    ELSE IF RaisesForStatus(status)
    THEN FetchRaise(g)                                   \* except ClientResponseError: break
    ELSE [g EXCEPT !.at = "returned", !.result = body]   \* return await response.json()

\* asyncio.sleep(wait_time) completes: wait_time *= 2; continue
FetchOnWake(f) ==
    FetchLoop([f EXCEPT !.waits = Append(@, f.wait_time),
                        !.wait_time = NextWait(f.wait_time)])

FetchSuspended(f) == f.at \in {"get", "sleep"}

---------------------------------------------------------------------------
(* URLs and the remote API *)

AMOUNT_PER_PAGE == 500

\* BASE_URL + f"findAll?page={page}&size={AMOUNT_PER_PAGE}"
StationsUrl(page) ==
    [res |-> "findAll", id |-> 0, page |-> page, size |-> AMOUNT_PER_PAGE]

\* BASE_URL + f"sensors/{id}?page={page}&size={AMOUNT_PER_PAGE}"
InstallationsUrl(id, page) ==
    [res |-> "sensors", id |-> id, page |-> page, size |-> AMOUNT_PER_PAGE]


(* The content of the remote API.  The stations and installations it holds *)
(* are fixed; a state of the API is how the station records are laid out   *)
(* on pages, the totalPages each resource reports on page 0, and by how    *)
(* much the totalPages of the later pages differs from that of page 0.     *)

Pages == 0 .. (MaxPages - 1)

\* the raw record of station s: every key of the API's schema
StationRecord(s) ==
    [k \in STATION_KEYS |-> IF k = "Identyfikator stacji" THEN s ELSE <<s, k>>]

\* a raw station record that lacks key
MalformedStationRecord(s, key) ==
    [k \in STATION_KEYS \ {key} |->
        IF k = "Identyfikator stacji" THEN s ELSE <<s, k>>]

\* the raw record of installation n of station s, with one key beyond the schema
InstallationRecord(s, n) ==
    [k \in INSTALLATION_KEYS \cup {"Id stacji"} |->
        IF k = "Identyfikator stanowiska" THEN 10 * s + n
        ELSE IF k = "Id stacji" THEN s
        ELSE <<s, n, k>>]

MalformedInstallationRecord(s, n, key) ==
    [k \in INSTALLATION_KEYS \ {key} |->
        IF k = "Identyfikator stanowiska" THEN 10 * s + n ELSE <<s, n, k>>]

StationIds == {1, 2}

\* the layouts of the station listing: the records of each page
\* one station on each of the first two pages
LayoutSplit ==
    [p \in Pages |-> IF p = 0 THEN <<StationRecord(1)>>
                     ELSE IF p = 1 THEN <<StationRecord(2)>> ELSE <<>>]
\* both stations on page 0, a malformed record between them
LayoutSingle ==
    [p \in Pages |-> IF p = 0
                     THEN <<StationRecord(1),
                            MalformedStationRecord(3, "Ulica"),
                            StationRecord(2)>>
                     ELSE <<>>]
\* station 2 before station 1, a malformed record first
LayoutMixed ==
    [p \in Pages |-> IF p = 0
                     THEN <<MalformedStationRecord(3, "Kod stacji"),
                            StationRecord(2)>>
                     ELSE IF p = 1 THEN <<StationRecord(1)>> ELSE <<>>]

StationLayouts == {LayoutSplit, LayoutSingle, LayoutMixed}

\* the records of page p of findAll: a page past the last one is empty
StationPage(a, p) == IF p \in DOMAIN a.layout THEN a.layout[p] ELSE <<>>

\* the records of page p of sensors/<s>, a resource of `total` pages: a page
\* past the last one is empty
InstallationPage(s, total, p) ==
    IF p >= total THEN <<>>
    ELSE IF p = 0 THEN <<InstallationRecord(s, 0)>>
    ELSE <<MalformedInstallationRecord(s, 9, "Wskaznik - kod"),
           InstallationRecord(s, p)>>

\* the API of the mixed layout reports, on the later pages of every resource,
\* one page more than on page 0; the other two report the same total throughout
Apis ==
    { a \in [ layout     : StationLayouts,
              st_total   : 0 .. MaxPages,
              inst_total : [StationIds -> 0 .. MaxPages],
              drift      : {0, 1} ] :
         a.drift = (IF a.layout = LayoutMixed THEN 1 ELSE 0) }

\* the totalPages field of page p of a resource whose page 0 reports total
ReportedTotal(a, total, p) == IF p = 0 THEN total ELSE total + a.drift

\* the decoded body the API a serves for url
ApiBody(a, url) ==
    IF url.res = "findAll"
    THEN PageDoc(STATION_LIST_KEY,
                 ReportedTotal(a, a.st_total, url.page),
                 StationPage(a, url.page))
    ELSE PageDoc(INSTALLATION_LIST_KEY,
                 ReportedTotal(a, a.inst_total[url.id], url.page),
                 InstallationPage(url.id, a.inst_total[url.id], url.page))

---------------------------------------------------------------------------
(* SpecFetch: one call fetch_data(url, max_retries) against an endpoint    *)
(* that answers each GET with any status.                                  *)

\* the content the endpoint of SpecFetch decodes on a 200
FetchApi ==
    [ layout     |-> LayoutSingle,
      st_total   |-> MaxPages,
      inst_total |-> [s \in StationIds |-> MaxPages],
      drift      |-> 0 ]

FetchUrls ==
    { StationsUrl(p) : p \in Pages } \cup
    { InstallationsUrl(s, 0) : s \in StationIds }

NoFetch == [at |-> "none"]

IdleFetch == fcall = NoFetch
IdleParse == raw = NoBody /\ kind = "none" /\ parsed = Returned(<<>>)
IdleRun ==
    /\ api = [layout |-> <<>>, st_total |-> 0, inst_total |-> <<>>, drift |-> 0]
    /\ pc = "idle"
    /\ current_page = 0
    /\ total_pages = 0
    /\ updated_total = FALSE
    /\ master_list = <<>>
    /\ tasks = <<>>
    /\ mfetch = NoFetch
    /\ st_pages = <<>>
    /\ add_calls = <<>>
    /\ faults = {}
    /\ completed = <<>>

InitFetch ==
    /\ \E url \in FetchUrls, max_retries \in 0 .. MaxRetriesArg :
          fcall = FetchStart(url, max_retries)
    /\ IdleParse
    /\ IdleRun

\* the endpoint answers the GET in flight
FetchResponse ==
    /\ fcall.at = "get"
    /\ \E status \in Statuses :
          fcall' = FetchOnResponse(fcall, status, ApiBody(FetchApi, fcall.url))
    /\ UNCHANGED <<parseVars, runVars>>

\* the backoff sleep is over
FetchWake ==
    /\ fcall.at = "sleep"
    /\ fcall' = FetchOnWake(fcall)
    /\ UNCHANGED <<parseVars, runVars>>

NextFetch == FetchResponse \/ FetchWake

SpecFetch == InitFetch /\ [][NextFetch]_vars

---------------------------------------------------------------------------
(* SpecParse: one call of a parser on a raw page.                          *)

RawStationRecords ==
    { StationRecord(1), StationRecord(2),
      MalformedStationRecord(3, "Ulica"),
      MalformedStationRecord(4, "Identyfikator stacji"),
      [k \in {"Kod stacji"} |-> <<5, k>>] }

RawInstallationRecords ==
    { InstallationRecord(1, 0), InstallationRecord(2, 1),
      MalformedInstallationRecord(1, 9, "Id wskaznika"),
      MalformedInstallationRecord(2, 8, "Identyfikator stanowiska"),
      [k \in {"Wskaznik"} |-> <<3, 7, k>>] }

RawStationPages ==
    { PageDoc(STATION_LIST_KEY, 1, recs) : recs \in SeqsUpTo(RawStationRecords, MaxRecs) }
    \cup { List(recs) : recs \in SeqsUpTo(RawStationRecords, 1) }

RawInstallationPages ==
    { PageDoc(INSTALLATION_LIST_KEY, 1, recs) :
         recs \in SeqsUpTo(RawInstallationRecords, MaxRecs) }
    \cup { List(recs) : recs \in SeqsUpTo(RawInstallationRecords, 1) }

InitParse ==
    /\ \/ kind = "stations" /\ raw \in RawStationPages
       \/ kind = "installations" /\ raw \in RawInstallationPages
    /\ parsed = Returned(<<>>)
    /\ pc = "parse"
    /\ IdleFetch
    /\ api = [layout |-> <<>>, st_total |-> 0, inst_total |-> <<>>, drift |-> 0]
    /\ current_page = 0
    /\ total_pages = 0
    /\ updated_total = FALSE
    /\ master_list = <<>>
    /\ tasks = <<>>
    /\ mfetch = NoFetch
    /\ st_pages = <<>>
    /\ add_calls = <<>>
    /\ faults = {}
    /\ completed = <<>>

ParseStations ==
    /\ pc = "parse"
    /\ kind = "stations"
    /\ parsed' = create_stations(raw)
    /\ pc' = "parsed"
    /\ UNCHANGED <<fcall, raw, kind, api, current_page, total_pages, updated_total,
                   master_list, tasks, mfetch, st_pages, add_calls, faults,
                   completed>>

ParseInstallations ==
    /\ pc = "parse"
    /\ kind = "installations"
    /\ parsed' = create_installations(raw)
    /\ pc' = "parsed"
    /\ UNCHANGED <<fcall, raw, kind, api, current_page, total_pages, updated_total,
                   master_list, tasks, mfetch, st_pages, add_calls, faults,
                   completed>>

NextParse == ParseStations \/ ParseInstallations

SpecParse == InitParse /\ [][NextParse]_vars

---------------------------------------------------------------------------
(* Spec: one run of get_stations on the event loop.                        *)
(*                                                                         *)
(* A step of the model is one wake-up of a coroutine by the event loop (a  *)
(* response or a timer) together with everything the coroutine does until  *)
(* it suspends again.  A task made by asyncio.create_task first runs when  *)
(* its creator suspends, before any later response is delivered, so it is  *)
(* created already suspended in the GET of its page 0.  The tasks that run *)
(* create_installations have no suspension point: each is recorded by what *)
(* it gives.                                                               *)

\* the classes an exception of each type is an instance of
ExceptionClasses(type) ==
    CASE type = "HTTPError"  -> {"HTTPError", "RequestException", "OSError", "Exception"}
      [] type = "ValueError" -> {"ValueError", "Exception"}
      [] OTHER               -> {"Exception"}

\* except <cls> catches exc
Catches(cls, exc) == cls \in ExceptionClasses(exc.type)

\* variant: the handler catches every exception
INSTALLATIONS_EXCEPT_ANY == "Exception"
\* get_installations: except HTTPError as e: return []
INSTALLATIONS_EXCEPT == "HTTPError"

\* variant: the loop condition admits one more page
PageLoopContinuesInclusive(page, total) == page <= total
\* while current_page < total_pages
PageLoopContinues(page, total) == page < total

\* variant: totalPages is read from every response
UpdateTotalAlways(updated, total, data) == data.val[TOTAL_PAGES_KEY]
\* variant: totalPages is never read
UpdateTotalNever(updated, total, data) == total
\* if updated_total == False: total_pages = data["totalPages"]
UpdateTotal(updated, total, data) ==
    IF updated = FALSE THEN data.val[TOTAL_PAGES_KEY] ELSE total

RECURSIVE ExtendReversed(_, _)
\* variant: each part is put before what was gathered so far
ExtendReversed(master, parts) ==
    IF parts = <<>> THEN master
    ELSE ExtendReversed(Head(parts).value \o master, Tail(parts))

RECURSIVE Extend(_, _)
\* for part in parts: master_list.extend(part)
Extend(master, parts) ==
    IF parts = <<>> THEN master
    ELSE Extend(master \o Head(parts).value, Tail(parts))

\* the frame of Station.get_installations for the station at position
\* `station` of master_list, run to its first suspension
NewInstallationsTask(station, id) ==
    [ station       |-> station,
      id            |-> id,
      at            |-> "fetching",
      current_page  |-> 0,
      total_pages   |-> 1,
      updated_total |-> FALSE,
      tasks         |-> <<>>,
      fetch         |-> FetchStart(InstallationsUrl(id, 0), DEFAULT_MAX_RETRIES),
      pages         |-> <<0>>,
      result        |-> <<>>,
      exc           |-> NO_ERROR ]

\* get_installations after its fetch_data call returned installation_data
InstallationsAfterPage(t, installation_data) ==
    LET total == UpdateTotal(t.updated_total, t.total_pages, installation_data)
        page  == t.current_page + 1
        parts == Append(t.tasks, create_installations(installation_data))
        u     == [t EXCEPT !.total_pages = total, !.updated_total = TRUE,
                           !.current_page = page, !.tasks = parts,
                           !.fetch = NoFetch]
    IN  IF PageLoopContinues(page, total)
        THEN [u EXCEPT !.fetch = FetchStart(InstallationsUrl(t.id, page),
                                            DEFAULT_MAX_RETRIES),
                       !.pages = Append(@, page)]
        ELSE \* installations = await asyncio.gather(*tasks)
             IF \E i \in DOMAIN parts : parts[i].raised
             THEN LET i == CHOOSE j \in DOMAIN parts : parts[j].raised
                  IN  [u EXCEPT !.at = "raised", !.exc = parts[i].exc]
             ELSE [u EXCEPT !.at = "returned", !.result = Extend(<<>>, parts)]

\* get_installations after its fetch_data call raised exc
InstallationsAfterError(t, exc) ==
    IF Catches(INSTALLATIONS_EXCEPT, exc)
    THEN [t EXCEPT !.at = "returned", !.result = <<>>, !.fetch = NoFetch]
    ELSE [t EXCEPT !.at = "raised", !.exc = exc, !.fetch = NoFetch]

\* get_installations resumed with its fetch_data call in state f
InstallationsResume(t, f) ==
    IF FetchSuspended(f) THEN [t EXCEPT !.fetch = f]
    ELSE IF f.at = "raised" THEN InstallationsAfterError(t, f.error)
    ELSE InstallationsAfterPage(t, f.result)

\* the end of task i (now in state t) is recorded
Completed(i, t) == IF t.at = "fetching" THEN completed ELSE Append(completed, i)

\* a terminal failure of the call f is recorded
Faults(f) == IF f.at = "raised" THEN faults \cup {f.url} ELSE faults

Init ==
    /\ api \in Apis
    /\ pc = "fetching"
    /\ current_page = 0
    /\ total_pages = 1
    /\ updated_total = FALSE
    /\ master_list = <<>>
    /\ tasks = <<>>
    /\ mfetch = FetchStart(StationsUrl(0), DEFAULT_MAX_RETRIES)
    /\ st_pages = <<0>>
    /\ add_calls = <<>>
    /\ faults = {}
    /\ completed = <<>>
    /\ IdleFetch
    /\ IdleParse

\* variant: the handler ends the loop and keeps what was fetched
STATIONS_ON_ERROR_BREAK == "gather"
\* get_stations: except Exception as e: raise e
STATIONS_ON_ERROR == "raised"

\* get_stations resumed with its fetch_data call in state f
StationsResume(f) ==
    /\ faults' = Faults(f)
    /\ IF FetchSuspended(f)
       THEN /\ mfetch' = f
            /\ UNCHANGED <<pc, current_page, total_pages, updated_total,
                           master_list, tasks, st_pages, add_calls>>
       ELSE IF f.at = "raised"
       THEN /\ pc' = STATIONS_ON_ERROR
            /\ mfetch' = NoFetch
            /\ UNCHANGED <<current_page, total_pages, updated_total,
                           master_list, tasks, st_pages, add_calls>>
       ELSE LET station_data == f.result
                total    == UpdateTotal(updated_total, total_pages, station_data)
                page     == current_page + 1
                made     == create_stations(station_data)
                stations == IF made.raised THEN <<>> ELSE made.value
                n        == Len(master_list)
            IN  /\ total_pages' = total
                /\ updated_total' = TRUE
                /\ current_page' = page
                /\ IF made.raised
                   THEN /\ pc' = "raised"
                        /\ mfetch' = NoFetch
                        /\ UNCHANGED <<master_list, tasks, st_pages, add_calls>>
                   ELSE /\ tasks' = tasks \o
                             [i \in 1 .. Len(stations) |->
                                 NewInstallationsTask(n + i, stations[i].id)]
                        /\ master_list' = master_list \o stations
                        /\ add_calls' = add_calls \o [i \in 1 .. Len(stations) |-> 0]
                        /\ IF PageLoopContinues(page, total)
                           THEN /\ mfetch' = FetchStart(StationsUrl(page),
                                                        DEFAULT_MAX_RETRIES)
                                /\ st_pages' = Append(st_pages, page)
                                /\ pc' = "fetching"
                           ELSE /\ mfetch' = NoFetch
                                /\ st_pages' = st_pages
                                /\ pc' = "gather"

\* the API answers the GET of get_stations
StationsResponse ==
    /\ pc = "fetching"
    /\ mfetch.at = "get"
    /\ \E status \in Statuses :
          StationsResume(FetchOnResponse(mfetch, status, ApiBody(api, mfetch.url)))
    /\ UNCHANGED <<api, completed, fetchVars, parseVars>>

\* the backoff sleep of get_stations' fetch_data call is over
StationsWake ==
    /\ pc = "fetching"
    /\ mfetch.at = "sleep"
    /\ StationsResume(FetchOnWake(mfetch))
    /\ UNCHANGED <<api, completed, fetchVars, parseVars>>

\* the API answers the GET of installation task i
InstallationsResponse(i) ==
    /\ tasks[i].at = "fetching"
    /\ tasks[i].fetch.at = "get"
    /\ \E status \in Statuses :
          LET f == FetchOnResponse(tasks[i].fetch, status,
                                   ApiBody(api, tasks[i].fetch.url))
              t == InstallationsResume(tasks[i], f)
          IN  /\ tasks' = [tasks EXCEPT ![i] = t]
              /\ faults' = Faults(f)
              /\ completed' = Completed(i, t)
    /\ UNCHANGED <<api, pc, current_page, total_pages, updated_total, master_list,
                   mfetch, st_pages, add_calls, fetchVars, parseVars>>

\* the backoff sleep of installation task i is over
InstallationsWake(i) ==
    /\ tasks[i].at = "fetching"
    /\ tasks[i].fetch.at = "sleep"
    /\ LET f == FetchOnWake(tasks[i].fetch)
           t == InstallationsResume(tasks[i], f)
       IN  /\ tasks' = [tasks EXCEPT ![i] = t]
           /\ faults' = Faults(f)
           /\ completed' = Completed(i, t)
    /\ UNCHANGED <<api, pc, current_page, total_pages, updated_total, master_list,
                   mfetch, st_pages, add_calls, fetchVars, parseVars>>

\* variant: the results in the order the tasks ended
GatherAsCompleted(ts) == [i \in 1 .. Len(ts) |-> ts[completed[i]].result]
\* asyncio.gather(*tasks): the results, in the order of the awaitables
Gather(ts) == [i \in 1 .. Len(ts) |-> ts[i].result]

\* variant: the last pair is lost
ZipShort(a, b) ==
    [i \in 1 .. ((IF Len(a) <= Len(b) THEN Len(a) ELSE Len(b)) - 1) |-> <<a[i], b[i]>>]
\* zip(a, b)
Zip(a, b) ==
    [i \in 1 .. (IF Len(a) <= Len(b) THEN Len(a) ELSE Len(b)) |-> <<a[i], b[i]>>]

\* Station.add_installations: for install in installations: self.installations.append(install)
add_installations(station, installations) ==
    [station EXCEPT !.installations = @ \o installations]

\* variant: the tasks are not awaited
GatherReturnsUnawaited(ts) == TRUE
\* variant: gather is over with the first task that returns
GatherReturnsAny(ts) == \E i \in DOMAIN ts : ts[i].at = "returned"
\* asyncio.gather(*ts) gives its list when every awaitable has returned
GatherReturns(ts) == \A i \in DOMAIN ts : ts[i].at = "returned"

\* asyncio.gather(*ts) raises as soon as one awaitable has raised
GatherRaises(ts) == \E i \in DOMAIN ts : ts[i].at = "raised"

\* await asyncio.gather(*tasks), first time: over when every task returned, or
\* as soon as one raised
GatherFirst ==
    /\ pc = "gather"
    /\ \/ /\ GatherRaises(tasks)
          /\ pc' = "raised"
       \/ /\ GatherReturns(tasks)
          /\ pc' = "gather2"
    /\ UNCHANGED <<api, current_page, total_pages, updated_total, master_list, tasks,
                   mfetch, st_pages, add_calls, faults, completed, fetchVars,
                   parseVars>>

\* await asyncio.gather(*tasks), second time, and the merge loop:
\* for station, installs in zip(master_list, ...): station.add_installations(installs)
Merge ==
    /\ pc = "gather2"
    /\ LET pairs == Zip(master_list, Gather(tasks))
       IN  /\ master_list' =
                [i \in DOMAIN master_list |->
                    IF i \in DOMAIN pairs
                    THEN add_installations(pairs[i][1], pairs[i][2])
                    ELSE master_list[i]]
           /\ add_calls' =
                [i \in DOMAIN add_calls |->
                    IF i \in DOMAIN pairs THEN add_calls[i] + 1 ELSE add_calls[i]]
    /\ pc' = "returned"
    /\ UNCHANGED <<api, current_page, total_pages, updated_total, tasks,
                   mfetch, st_pages, faults, completed, fetchVars, parseVars>>

Next ==
    \/ StationsResponse
    \/ StationsWake
    \/ \E i \in DOMAIN tasks : InstallationsResponse(i)
    \/ \E i \in DOMAIN tasks : InstallationsWake(i)
    \/ GatherFirst
    \/ Merge

Spec == Init /\ [][Next]_vars

---------------------------------------------------------------------------
(* What the API holds, computed from its content alone *)

\* the page indices a pagination loop asks for when page 0 reports total:
\* page 0 always, then the pages below total
PagesAsked(total) == [i \in 1 .. (IF total < 1 THEN 1 ELSE total) |-> i - 1]

RECURSIVE ExpectedStations(_, _)
\* the stations of the valid records of pages 0 .. n-1 of findAll
ExpectedStations(a, n) ==
    IF n = 0 THEN <<>>
    ELSE LET valid == SelectValid(StationPage(a, n - 1), STATION_KEYS)
         IN  ExpectedStations(a, n - 1) \o
             [i \in 1 .. Len(valid) |-> StationOf(valid[i])]

RECURSIVE ExpectedInstallations(_, _, _)
\* the installations of the valid records of pages 0 .. n-1 of sensors/<id>
ExpectedInstallations(a, id, n) ==
    IF n = 0 THEN <<>>
    ELSE LET valid == SelectValid(InstallationPage(id, a.inst_total[id], n - 1),
                                  INSTALLATION_KEYS)
         IN  ExpectedInstallations(a, id, n - 1) \o
             [i \in 1 .. Len(valid) |-> InstallationOf(valid[i])]

\* the station objects of master_list as the parser made them
Bare(stations) == [i \in DOMAIN stations |-> [stations[i] EXCEPT !.installations = <<>>]]

\* the pagination loop of get_stations is over and every page was fetched
StationsListed == pc \in {"gather", "gather2", "returned"}

---------------------------------------------------------------------------
(* C1  Station-installation correlation: when get_stations returns, every  *)
(* station of the returned list has exactly one task, the one created for  *)
(* it, and its installations are exactly the result of that task, which is *)
(* the content of the pages of sensors/<its id>, whatever the order in     *)
(* which the tasks ended.                                                  *)
C1_Correlation ==
    pc = "returned" =>
        /\ \A k \in DOMAIN master_list :
              Cardinality({i \in DOMAIN tasks : tasks[i].station = k}) = 1
        /\ \A i \in DOMAIN tasks :
              LET S == master_list[tasks[i].station]
              IN  /\ tasks[i].id = S.id
                  /\ S.installations = tasks[i].result
                  /\ S.installations =
                        ExpectedInstallations(api, S.id,
                            Len(PagesAsked(api.inst_total[S.id])))

\* two stations with different installations, the task of the second ended first
C1_Witness ==
    /\ pc = "returned"
    /\ Len(master_list) = 2
    /\ completed = <<2, 1>>
    /\ master_list[1].installations # <<>>
    /\ master_list[2].installations # <<>>
    /\ master_list[1].installations # master_list[2].installations

(* C2  Pagination completeness: when page 0 of a resource reports          *)
(* totalPages = T >= 1 and every fetch succeeded, the loop asked           *)
(* fetch_data for the pages 0 .. T-1, each once and in this order, and for *)
(* no other page, and the list it built is the concatenation of the        *)
(* entities of these T pages.                                              *)
C2_PaginationComplete ==
    /\ (StationsListed /\ api.st_total >= 1) =>
          /\ st_pages = [i \in 1 .. api.st_total |-> i - 1]
          /\ Bare(master_list) = ExpectedStations(api, api.st_total)
    /\ \A i \in DOMAIN tasks :
          LET T == api.inst_total[tasks[i].id]
          IN  (tasks[i].at = "returned" /\ T >= 1) =>
                 /\ tasks[i].pages = [j \in 1 .. T |-> j - 1]
                 /\ tasks[i].result = ExpectedInstallations(api, tasks[i].id, T)

\* both loops went over the largest number of pages
C2_Witness ==
    /\ pc = "returned"
    /\ api.st_total = MaxPages
    /\ Len(master_list) = 2
    /\ \E i \in DOMAIN tasks :
          /\ api.inst_total[tasks[i].id] = MaxPages
          /\ Len(tasks[i].result) = MaxPages

(* C3  Installations are best-effort per station: a station whose page-0   *)
(* installation fetch failed terminally has a task that returned the empty *)
(* list, and such failures alone do not make get_stations raise.           *)
C3_BestEffortInstallations ==
    /\ \A i \in DOMAIN tasks :
          InstallationsUrl(tasks[i].id, 0) \in faults =>
             tasks[i].at = "returned" /\ tasks[i].result = <<>>
    /\ (\A u \in faults : u.res = "sensors" /\ u.page = 0) => pc # "raised"

(* C7  Run-level failure: a terminal failure of the page-0 station fetch   *)
(* makes get_stations raise with no list; a list that get_stations returns *)
(* holds the stations of every page 0 .. T-1.                              *)
C7_RunLevelFailure ==
    /\ StationsUrl(0) \in faults => pc = "raised" /\ master_list = <<>>
    /\ (\E u \in faults : u.res = "findAll") => pc = "raised"
    /\ pc = "returned" =>
          \A p \in 0 .. (api.st_total - 1) :
             \A r \in Range(SelectValid(StationPage(api, p), STATION_KEYS)) :
                \E k \in DOMAIN master_list : Bare(master_list)[k] = StationOf(r)

\* the page-0 station fetch failed after retries
C7_Witness ==
    /\ pc = "raised"
    /\ StationsUrl(0) \in faults
    /\ mfetch = NoFetch
    /\ tasks = <<>>

(* C9  Merge exactly once: until get_stations returns no station has       *)
(* installations and add_installations was not called; when it returns,    *)
(* add_installations was called exactly once for every station, also for   *)
(* one whose result is empty; afterwards no station's list changes.        *)
C9_MergeOnce ==
    /\ [](/\ Len(add_calls) = Len(master_list)
          /\ \A k \in DOMAIN master_list :
                IF pc = "returned"
                THEN add_calls[k] = 1
                ELSE add_calls[k] = 0 /\ master_list[k].installations = <<>>)
    /\ [][pc = "returned" => master_list' = master_list]_vars

\* a returned run with a station whose result is empty and one whose is not
C9_Witness ==
    /\ pc = "returned"
    /\ \E k \in DOMAIN master_list :
          master_list[k].installations = <<>> /\ add_calls[k] = 1
    /\ \E k \in DOMAIN master_list :
          master_list[k].installations # <<>> /\ add_calls[k] = 1

(* C10  End-to-end example: with two station pages of one station each     *)
(* and one installation page of one record per station, a run in which no  *)
(* fetch fails terminally does not raise, and a run that returns gives the *)
(* two stations, each with exactly its own installation.                   *)
IsExample(a) ==
    /\ a.layout = LayoutSplit
    /\ a.st_total = 2
    /\ \A s \in StationIds : a.inst_total[s] = 1

C10_EndToEnd ==
    IsExample(api) =>
        /\ pc = "raised" => faults # {}
        /\ pc = "returned" =>
              /\ Len(master_list) = 2
              /\ master_list[1].id = 1
              /\ master_list[2].id = 2
              /\ \A k \in {1, 2} :
                    master_list[k].installations =
                       <<InstallationOf(InstallationRecord(k, 0))>>

\* the example, the installations of station 2 arriving first
C10_Witness ==
    /\ IsExample(api)
    /\ pc = "returned"
    /\ completed = <<2, 1>>
    /\ faults = {}

---------------------------------------------------------------------------
(* C4  Retry with exponential backoff: when the endpoint answers 429       *)
(* exactly k times and then 200, fetch_data returns the decoded body after *)
(* k+1 requests; the wait before the i-th retry is 2^(i-1), the total wait *)
(* 2^k - 1.                                                                *)
AnswersThen200(k) == [i \in 1 .. (k + 1) |-> IF i <= k THEN 429 ELSE 200]

C4_Backoff ==
    \A k \in 0 .. MaxRetriesArg :
        fcall.statuses = AnswersThen200(k) =>
            /\ k < fcall.max_retries
            /\ fcall.at = "returned"
            /\ fcall.result = ApiBody(FetchApi, fcall.url)
            /\ fcall.requests = k + 1
            /\ fcall.waits = [i \in 1 .. k |-> Pow2(i - 1)]
            /\ SumSeq(fcall.waits) = Pow2(k) - 1

\* success after four 429 answers, under the default max_retries
C4_Witness ==
    /\ fcall.max_retries = DEFAULT_MAX_RETRIES
    /\ fcall.at = "returned"
    /\ fcall.statuses = AnswersThen200(4)
    /\ SumSeq(fcall.waits) = 15

(* C5  Retry exhaustion: when every one of max_retries (>= 1) attempts is  *)
(* answered 429, fetch_data raises, and the error it raises is not one of  *)
(* the errors it raises for a non-429 failure.                             *)
RequestFailedErrors ==
    { FetchOnResponse(FetchStart(u, 1), status, NoBody).error :
         u \in FetchUrls, status \in Statuses \ {200, 429} }

C5_ExhaustionDistinct ==
    ( /\ fcall.max_retries >= 1
      /\ fcall.at \in {"returned", "raised"}
      /\ fcall.statuses = [i \in 1 .. fcall.max_retries |-> 429] ) =>
        /\ fcall.at = "raised"
        /\ fcall.error \notin RequestFailedErrors

(* C6  No retry on non-429 errors: an answer that is an error other than   *)
(* 429 is the last answer of the call: the call has raised, it issued no   *)
(* request and completed no wait after the answer.                         *)
C6_NoRetryOnError ==
    \A j \in DOMAIN fcall.statuses :
        fcall.statuses[j] \notin {200, 429} =>
            /\ j = Len(fcall.statuses)
            /\ fcall.at = "raised"
            /\ fcall.requests = j
            /\ Len(fcall.waits) = j - 1
            /\ fcall.retry_count = j - 1

\* a 500 after two 429 answers, with retries left
C6_Witness ==
    /\ fcall.statuses = <<429, 429, 500>>
    /\ fcall.max_retries = DEFAULT_MAX_RETRIES
    /\ fcall.at = "raised"

---------------------------------------------------------------------------
(* C8  Malformed-record skip: on a page that is a document, each parser    *)
(* raises nothing and returns exactly the entities of the records that     *)
(* carry every required key, in their order in the page.                   *)
C8_MalformedSkip ==
    (pc = "parsed" /\ isinstance_dict(raw)) =>
        /\ ~parsed.raised
        /\ kind = "stations" =>
              LET valid == SelectValid(raw.val[STATION_LIST_KEY], STATION_KEYS)
              IN  /\ Len(parsed.value) = Len(valid)
                  /\ \A i \in DOMAIN valid : parsed.value[i] = StationOf(valid[i])
        /\ kind = "installations" =>
              LET valid == SelectValid(raw.val[INSTALLATION_LIST_KEY], INSTALLATION_KEYS)
              IN  /\ Len(parsed.value) = Len(valid)
                  /\ \A i \in DOMAIN valid : parsed.value[i] = InstallationOf(valid[i])

\* a station page with a malformed record between two valid ones
C8_Witness ==
    /\ pc = "parsed"
    /\ kind = "stations"
    /\ isinstance_dict(raw)
    /\ Len(raw.val[STATION_LIST_KEY]) = 3
    /\ ~RaisesKeyError(raw.val[STATION_LIST_KEY][1], STATION_KEYS)
    /\ RaisesKeyError(raw.val[STATION_LIST_KEY][2], STATION_KEYS)
    /\ ~RaisesKeyError(raw.val[STATION_LIST_KEY][3], STATION_KEYS)
    /\ Len(parsed.value) = 2

---------------------------------------------------------------------------
(* C11  Deterministic merge: the list get_stations returns is a function   *)
(* of the content of the API alone: the stations in page order and, within *)
(* a page, in record order, each with its installations in page order,     *)
(* whatever the order in which the tasks ended.                            *)
ExpectedResult(a) ==
    LET stations == ExpectedStations(a, Len(PagesAsked(a.st_total)))
    IN  [k \in DOMAIN stations |->
            [stations[k] EXCEPT !.installations =
                ExpectedInstallations(a, stations[k].id,
                    Len(PagesAsked(a.inst_total[stations[k].id])))]]

C11_DeterministicMerge == pc = "returned" => master_list = ExpectedResult(api)

\* stations from two pages, each with installations from several pages, the
\* task of the second station ended first
C11_Witness ==
    /\ pc = "returned"
    /\ api.layout = LayoutMixed
    /\ Len(master_list) = 2
    /\ completed = <<2, 1>>
    /\ \A k \in DOMAIN master_list : Len(master_list[k].installations) = MaxPages

(* C13  Only the first read of the page count is trusted: in both loops    *)
(* total_pages is 1 until page 0 was answered and from then on the         *)
(* totalPages of page 0, whatever the later pages report; the pages a loop *)
(* that ended asked for are those that page 0 announced.                   *)
FirstTotal(url) == ApiBody(api, url).val[TOTAL_PAGES_KEY]

C13_FirstReadTrusted ==
    /\ total_pages = (IF updated_total THEN FirstTotal(StationsUrl(0)) ELSE 1)
    /\ StationsListed => st_pages = PagesAsked(FirstTotal(StationsUrl(0)))
    /\ \A i \in DOMAIN tasks :
          LET t == tasks[i]
              first == FirstTotal(InstallationsUrl(t.id, 0))
          IN  /\ t.total_pages = (IF t.updated_total THEN first ELSE 1)
              /\ t.at = "returned" => t.pages = PagesAsked(first)

\* both loops read a later page that reports another total than page 0 did
C13_Witness ==
    /\ pc = "returned"
    /\ api.drift = 1
    /\ Len(st_pages) >= 2
    /\ FirstTotal(StationsUrl(1)) # FirstTotal(StationsUrl(0))
    /\ \E i \in DOMAIN tasks :
          /\ Len(tasks[i].pages) >= 2
          /\ FirstTotal(InstallationsUrl(tasks[i].id, 1)) #
                FirstTotal(InstallationsUrl(tasks[i].id, 0))

---------------------------------------------------------------------------
(* SpecDeep: one run of get_stations against an API whose station listing  *)
(* has MaxPages + 1 pages and whose installation listings have one page or *)
(* MaxPages + 1 pages.                                                     *)

DeepApis ==
    { [ layout     |-> LayoutSplit,
        st_total   |-> MaxPages + 1,
        inst_total |-> inst_total,
        drift      |-> 0 ] : inst_total \in [StationIds -> {1, MaxPages + 1}] }

InitDeep ==
    /\ api \in DeepApis
    /\ pc = "fetching"
    /\ current_page = 0
    /\ total_pages = 1
    /\ updated_total = FALSE
    /\ master_list = <<>>
    /\ tasks = <<>>
    /\ mfetch = FetchStart(StationsUrl(0), DEFAULT_MAX_RETRIES)
    /\ st_pages = <<0>>
    /\ add_calls = <<>>
    /\ faults = {}
    /\ completed = <<>>
    /\ IdleFetch
    /\ IdleParse

SpecDeep == InitDeep /\ [][Next]_vars

(* C14  Concurrent page fetches within one resource: once page 0 of a      *)
(* resource has reported T pages and the loop over it goes on, the pages   *)
(* 1 .. T-1 have all been requested, so that page k+1 is in flight before  *)
(* the response for page k arrives.                                        *)
C14_ConcurrentPageFetches ==
    /\ (pc = "fetching" /\ updated_total) =>
          \A p \in 1 .. (total_pages - 1) : p \in Range(st_pages)
    /\ \A i \in DOMAIN tasks :
          (tasks[i].at = "fetching" /\ tasks[i].updated_total) =>
             \A p \in 1 .. (tasks[i].total_pages - 1) : p \in Range(tasks[i].pages)

PhaseRank(p) ==
    CASE p = "fetching" -> 0
      [] p = "gather"   -> 1
      [] p = "gather2"  -> 2
      [] OTHER          -> 3

C16_NoWriteByTasks ==
    /\ []((\E i \in DOMAIN tasks : tasks[i].at = "fetching") =>
             \A k \in DOMAIN master_list : master_list[k].installations = <<>>)
    /\ [][(\E k \in DOMAIN master_list :
              master_list'[k].installations # master_list[k].installations)
           => (pc = "gather2" /\ pc' = "returned" /\ tasks' = tasks)]_vars

\* one task has gathered installations, another is still fetching, and no
\* station has any installation yet
C16_Witness ==
    /\ \E i \in DOMAIN tasks : tasks[i].at = "fetching"
    /\ \E j \in DOMAIN tasks : tasks[j].at = "returned" /\ tasks[j].result # <<>>
    /\ \A k \in DOMAIN master_list : master_list[k].installations = <<>>

(* C17  Later-page failure is fatal: once the fetch of a page k > 0 of the *)
(* station listing or of a station's installation listing has failed,      *)
(* get_stations never merges and never returns a list; when its loop over  *)
(* the station pages is over, the gather can only raise.                   *)
C17_LaterPageFailureFatal ==
    (\E url \in faults : url.page > 0) =>
        /\ pc \notin {"gather2", "returned"}
        /\ \A k \in DOMAIN master_list : master_list[k].installations = <<>>
        /\ pc = "gather" => ~GatherReturns(tasks)

\* page 1 of a station's installations failed, no station page did, and
\* get_stations raised
C17_Witness ==
    /\ pc = "raised"
    /\ \E url \in faults : url.res = "sensors" /\ url.page > 0
    /\ \A url \in faults : url.res # "findAll"

(* C18  Malformed document: a parser called on a raw page that is not a    *)
(* dict raises the ValueError of the type contract and gives no entity.    *)
C18_MalformedDocument ==
    (pc = "parsed" /\ ~isinstance_dict(raw)) => parsed = Raised(VALUE_ERROR)

\* create_installations was called on a list of one record
C18_Witness ==
    /\ pc = "parsed"
    /\ kind = "installations"
    /\ ~isinstance_dict(raw)
    /\ Len(raw.val) = 1
    /\ parsed.raised

---------------------------------------------------------------------------
(* SpecFair: a call of fetch_data on its own, or a run of get_stations,    *)
(* on an event loop that delivers every response and ends every sleep: a   *)
(* coroutine that waits for a GET or for a timer is eventually resumed,    *)
(* and a coroutine that can go on does.                                    *)

InitFair == Init \/ InitFetch

NextFair == Next \/ NextFetch

SpecFair == InitFair /\ [][NextFair]_vars /\ WF_vars(NextFair)

\* the call f of fetch_data keeps within its max_retries
FrameBounded(f) ==
    f.at # "none" =>
        /\ f.requests <= f.max_retries
        /\ Len(f.waits) <= f.max_retries
        /\ Len(f.statuses) <= f.requests
        /\ f.max_retries = 0 => (f.requests = 0 /\ f.at = "raised")

\* the call of fetch_data and the run of get_stations are over
Terminated ==
    /\ fcall.at \in {"none", "returned", "raised"}
    /\ pc \in {"idle", "returned", "raised"}

===========================================================================
